---------------------------- MODULE Spec2Model ----------------------------
(***************************************************************************)
(* The IPPool admission validator of vm-dhcp-controller                    *)
(* (pkg/webhook/ippool/validator.go).                                      *)
(*                                                                         *)
(* An IPv4 address is a word of AddrBits bits (32 in the program).  A      *)
(* netip.Addr is the record [z, ip]: z = "z0" is the zero Addr, for which  *)
(* IsValid() is false, and z = "z4" is an IPv4 address whose As4() is ip.  *)
(* A string field of the IPPool object that holds an address is <<>> for   *)
(* the empty string and <<a>> for the text of address a; the CIDR string   *)
(* is <<>> (unparsable) or <<ip, bits>>.  A network name is the sequence   *)
(* of its pieces, "/" and " " being pieces of their own.  An error is      *)
(* [format, args], after the                                               *)
(* fmt.Errorf call that makes it; the nil error is Nil.                    *)
(***************************************************************************)
EXTENDS Integers, Sequences, FiniteSets

VARIABLES
    nadCache,       \* Validator.nadCache: [keys, errors]
    vmnetcfgCache,  \* Validator.vmnetcfgCache, as WhoUseIPPool sees it: [fails, items]
    operation,      \* the operation of the admission request: "CREATE", "UPDATE", "DELETE"
    op,             \* the handler that ran: "none" before the request is handled
    obj,            \* the IPPool object of the request (newObj / oldObj), NoObj
                    \* before the request arrives
    verdict,        \* the error the handler returned (Nil: the request is admitted)
    calls           \* the calls the handler made to the pool loader, the check
                    \* functions and the two caches, in order

vars == <<nadCache, vmnetcfgCache, operation, op, obj, verdict, calls>>

---------------------------------------------------------------------------
(* Bounds *)

AddrBits == 3
MaxAddr == 4
MaxAllocated == 2
MaxDeps == 3

---------------------------------------------------------------------------
(* netip.Addr and net.IPNet *)

Min(a, b) == IF a < b THEN a ELSE b

Pow2(n) == 2 ^ n

Addrs == 0 .. Min(MaxAddr, Pow2(AddrBits) - 1)

ZeroAddr == [z |-> "z0", ip |-> 0]

Addr4(a) == [z |-> "z4", ip |-> a]

IsValid(addr) == addr.z # "z0"

As4(addr) == addr.ip

AsSlice(addr) == addr.ip

\* the number of addresses under a mask of `bits` leading ones
HostSize(bits) == Pow2(AddrBits - bits)

\* ip & mask
Masked(ip, bits) == ip - (ip % HostSize(bits))

\* net.IPNet.Contains
Contains(ipNet, ip) == Masked(ip, ipNet.Bits) = Masked(ipNet.IP, ipNet.Bits)

---------------------------------------------------------------------------
(* Errors *)

Nil == [format |-> "nil", args |-> <<>>]

Errorf(format, args) == [format |-> format, args |-> args]

---------------------------------------------------------------------------
(* pkg/util: LoadCIDR, LoadPool, LoadAllocated *)

ParseAddr(s) == Addr4(s[1])

LoadCIDR(cidr) ==
    IF cidr = <<>>
    THEN [err |-> Errorf("invalid CIDR address: %s", <<cidr>>)]
    ELSE LET base == Masked(cidr[1], cidr[2])
         IN  [err             |-> Nil,
              IPNet           |-> [IP |-> base, Bits |-> cidr[2]],
              NetworkIPAddr   |-> Addr4(base),
              BroadcastIPAddr |-> Addr4(base + HostSize(cidr[2]) - 1)]

LoadAddr(s) == IF s = <<>> THEN ZeroAddr ELSE ParseAddr(s)

LoadPool(ipPool) ==
    LET c == LoadCIDR(ipPool.Spec.CIDR)
    IN  IF c.err # Nil
        THEN [err |-> c.err]
        ELSE [err |-> Nil,
              pi  |-> [IPNet           |-> c.IPNet,
                       NetworkIPAddr   |-> c.NetworkIPAddr,
                       BroadcastIPAddr |-> c.BroadcastIPAddr,
                       StartIPAddr     |-> LoadAddr(ipPool.Spec.Start),
                       EndIPAddr       |-> LoadAddr(ipPool.Spec.End),
                       ServerIPAddr    |-> LoadAddr(ipPool.Spec.ServerIP),
                       RouterIPAddr    |-> LoadAddr(ipPool.Spec.Router)]]

\* the keys of the map, parsed; the program ranges over them in the map's order
LoadAllocated(allocated) == {ParseAddr(s) : s \in allocated}

---------------------------------------------------------------------------
(* checkNAD *)

\* A string is the sequence of its pieces: "/" and " " are pieces of their own,
\* every other piece is a run of text holding neither.

\* strings.SplitN(s, sep, 2): the position of the first sep in s, 0 if none
FirstIndex(s, sep) ==
    IF \E i \in 1 .. Len(s) : s[i] = sep
    THEN CHOOSE i \in 1 .. Len(s) :
             s[i] = sep /\ \A j \in 1 .. (i - 1) : s[j] # sep
    ELSE 0

\* strings.TrimSpace: s without its leading and trailing white space
RECURSIVE TrimSpace(_)
TrimSpace(s) ==
    IF s = <<>> THEN <<>>
    ELSE IF Head(s) = " " THEN TrimSpace(Tail(s))
    ELSE IF s[Len(s)] = " " THEN TrimSpace(SubSeq(s, 1, Len(s) - 1))
    ELSE s

\* kv.RSplit(s, "/"): s is split at its first "/" into two trimmed parts;
\* a string without "/" is the second part and the first part is empty
RSplit(s) ==
    LET i == FirstIndex(s, "/")
    IN  IF i = 0
        THEN <<<<>>, TrimSpace(s)>>
        ELSE <<TrimSpace(SubSeq(s, 1, i - 1)),
               TrimSpace(SubSeq(s, i + 1, Len(s)))>>

\* NetworkAttachmentDefinitionCache.Get
nadCacheGet(cache, namespace, name) ==
    IF <<namespace, name>> \in cache.errors
    THEN Errorf("lookup failure", <<>>)
    ELSE IF <<namespace, name>> \in cache.keys
         THEN Nil
         ELSE Errorf("%s not found", <<namespace, name>>)

\* checkNAD, were it to ask the cache again after an error
checkNAD_Retry(cache, namespacedName) ==
    LET split        == RSplit(namespacedName)
        nadNamespace == IF split[1] = <<>> THEN <<"default">> ELSE split[1]
        nadName      == split[2]
        err          == nadCacheGet(cache, nadNamespace, nadName)
    IN  [err   |-> err,
         calls |-> IF err # Nil
                   THEN <<"nadCache.Get", "nadCache.Get">>
                   ELSE <<"nadCache.Get">>]

checkNAD(cache, namespacedName) ==
    LET split        == RSplit(namespacedName)
        nadNamespace == IF split[1] = <<>> THEN <<"default">> ELSE split[1]
        nadName      == split[2]
    IN  [err   |-> nadCacheGet(cache, nadNamespace, nadName),
         calls |-> <<"nadCache.Get">>]

---------------------------------------------------------------------------
(* checkPoolRange, checkServerIP, checkRouter *)

\* checkPoolRange, were it to require the start address not to exceed the end address
checkPoolRange_Ordered(pi) ==
    IF IsValid(pi.StartIPAddr) /\ ~Contains(pi.IPNet, AsSlice(pi.StartIPAddr))
    THEN Errorf("start ip %s is not within subnet", <<pi.StartIPAddr>>)
    ELSE IF IsValid(pi.StartIPAddr) /\ As4(pi.StartIPAddr) = As4(pi.NetworkIPAddr)
    THEN Errorf("start ip %s is the same as network ip", <<pi.StartIPAddr>>)
    ELSE IF IsValid(pi.StartIPAddr) /\ As4(pi.StartIPAddr) = As4(pi.BroadcastIPAddr)
    THEN Errorf("start ip %s is the same as broadcast ip", <<pi.StartIPAddr>>)
    ELSE IF IsValid(pi.EndIPAddr) /\ ~Contains(pi.IPNet, AsSlice(pi.EndIPAddr))
    THEN Errorf("end ip %s is not within subnet", <<pi.EndIPAddr>>)
    ELSE IF IsValid(pi.EndIPAddr) /\ As4(pi.EndIPAddr) = As4(pi.NetworkIPAddr)
    THEN Errorf("end ip %s is the same as network ip", <<pi.EndIPAddr>>)
    ELSE IF IsValid(pi.EndIPAddr) /\ As4(pi.EndIPAddr) = As4(pi.BroadcastIPAddr)
    THEN Errorf("end ip %s is the same as broadcast ip", <<pi.EndIPAddr>>)
    ELSE IF IsValid(pi.StartIPAddr) /\ IsValid(pi.EndIPAddr)
            /\ As4(pi.StartIPAddr) > As4(pi.EndIPAddr)
    THEN Errorf("start ip %s is greater than end ip", <<pi.StartIPAddr>>)
    ELSE Nil

checkPoolRange(pi) ==
    IF IsValid(pi.StartIPAddr) /\ ~Contains(pi.IPNet, AsSlice(pi.StartIPAddr))
    THEN Errorf("start ip %s is not within subnet", <<pi.StartIPAddr>>)
    ELSE IF IsValid(pi.StartIPAddr) /\ As4(pi.StartIPAddr) = As4(pi.NetworkIPAddr)
    THEN Errorf("start ip %s is the same as network ip", <<pi.StartIPAddr>>)
    ELSE IF IsValid(pi.StartIPAddr) /\ As4(pi.StartIPAddr) = As4(pi.BroadcastIPAddr)
    THEN Errorf("start ip %s is the same as broadcast ip", <<pi.StartIPAddr>>)
    ELSE IF IsValid(pi.EndIPAddr) /\ ~Contains(pi.IPNet, AsSlice(pi.EndIPAddr))
    THEN Errorf("end ip %s is not within subnet", <<pi.EndIPAddr>>)
    ELSE IF IsValid(pi.EndIPAddr) /\ As4(pi.EndIPAddr) = As4(pi.NetworkIPAddr)
    THEN Errorf("end ip %s is the same as network ip", <<pi.EndIPAddr>>)
    ELSE IF IsValid(pi.EndIPAddr) /\ As4(pi.EndIPAddr) = As4(pi.BroadcastIPAddr)
    THEN Errorf("end ip %s is the same as broadcast ip", <<pi.EndIPAddr>>)
    ELSE Nil

\* checkServerIP, without the comparison with the broadcast address
checkServerIP_NoBroadcastCheck(pi, allocatedIPs) ==
    IF ~IsValid(pi.ServerIPAddr)
    THEN Nil
    ELSE IF ~Contains(pi.IPNet, AsSlice(pi.ServerIPAddr))
    THEN Errorf("server ip %s is not within subnet", <<pi.ServerIPAddr>>)
    ELSE IF As4(pi.ServerIPAddr) = As4(pi.NetworkIPAddr)
    THEN Errorf("server ip %s cannot be the same as network ip", <<pi.ServerIPAddr>>)
    ELSE IF IsValid(pi.RouterIPAddr) /\ As4(pi.ServerIPAddr) = As4(pi.RouterIPAddr)
    THEN Errorf("server ip %s cannot be the same as router ip", <<pi.ServerIPAddr>>)
    ELSE IF \E ip \in allocatedIPs : pi.ServerIPAddr = ip
    THEN Errorf("server ip %s is already allocated", <<pi.ServerIPAddr>>)
    ELSE Nil

\* checkServerIP, with the allocated addresses compared before the router address
checkServerIP_AllocatedFirst(pi, allocatedIPs) ==
    IF ~IsValid(pi.ServerIPAddr)
    THEN Nil
    ELSE IF ~Contains(pi.IPNet, AsSlice(pi.ServerIPAddr))
    THEN Errorf("server ip %s is not within subnet", <<pi.ServerIPAddr>>)
    ELSE IF As4(pi.ServerIPAddr) = As4(pi.NetworkIPAddr)
    THEN Errorf("server ip %s cannot be the same as network ip", <<pi.ServerIPAddr>>)
    ELSE IF As4(pi.ServerIPAddr) = As4(pi.BroadcastIPAddr)
    THEN Errorf("server ip %s cannot be the same as broadcast ip", <<pi.ServerIPAddr>>)
    ELSE IF \E ip \in allocatedIPs : pi.ServerIPAddr = ip
    THEN Errorf("server ip %s is already allocated", <<pi.ServerIPAddr>>)
    ELSE IF IsValid(pi.RouterIPAddr) /\ As4(pi.ServerIPAddr) = As4(pi.RouterIPAddr)
    THEN Errorf("server ip %s cannot be the same as router ip", <<pi.ServerIPAddr>>)
    ELSE Nil

checkServerIP(pi, allocatedIPs) ==
    IF ~IsValid(pi.ServerIPAddr)
    THEN Nil
    ELSE IF ~Contains(pi.IPNet, AsSlice(pi.ServerIPAddr))
    THEN Errorf("server ip %s is not within subnet", <<pi.ServerIPAddr>>)
    ELSE IF As4(pi.ServerIPAddr) = As4(pi.NetworkIPAddr)
    THEN Errorf("server ip %s cannot be the same as network ip", <<pi.ServerIPAddr>>)
    ELSE IF As4(pi.ServerIPAddr) = As4(pi.BroadcastIPAddr)
    THEN Errorf("server ip %s cannot be the same as broadcast ip", <<pi.ServerIPAddr>>)
    ELSE IF IsValid(pi.RouterIPAddr) /\ As4(pi.ServerIPAddr) = As4(pi.RouterIPAddr)
    THEN Errorf("server ip %s cannot be the same as router ip", <<pi.ServerIPAddr>>)
    ELSE IF \E ip \in allocatedIPs : pi.ServerIPAddr = ip
    THEN Errorf("server ip %s is already allocated", <<pi.ServerIPAddr>>)
    ELSE Nil

\* checkRouter, without the membership test
checkRouter_NoSubnetCheck(pi) ==
    IF ~IsValid(pi.RouterIPAddr)
    THEN Nil
    ELSE IF As4(pi.RouterIPAddr) = As4(pi.NetworkIPAddr)
    THEN Errorf("router ip %s is the same as network ip", <<pi.RouterIPAddr>>)
    ELSE IF As4(pi.RouterIPAddr) = As4(pi.BroadcastIPAddr)
    THEN Errorf("router ip %s is the same as broadcast ip", <<pi.BroadcastIPAddr>>)
    ELSE Nil

\* checkRouter, were it to compare the router address with the server address
checkRouter_RejectsServer(pi) ==
    IF ~IsValid(pi.RouterIPAddr)
    THEN Nil
    ELSE IF ~Contains(pi.IPNet, AsSlice(pi.RouterIPAddr))
    THEN Errorf("router ip %s is not within subnet", <<pi.RouterIPAddr>>)
    ELSE IF As4(pi.RouterIPAddr) = As4(pi.NetworkIPAddr)
    THEN Errorf("router ip %s is the same as network ip", <<pi.RouterIPAddr>>)
    ELSE IF As4(pi.RouterIPAddr) = As4(pi.BroadcastIPAddr)
    THEN Errorf("router ip %s is the same as broadcast ip", <<pi.BroadcastIPAddr>>)
    ELSE IF IsValid(pi.ServerIPAddr) /\ As4(pi.RouterIPAddr) = As4(pi.ServerIPAddr)
    THEN Errorf("router ip %s cannot be the same as server ip", <<pi.RouterIPAddr>>)
    ELSE Nil

checkRouter(pi) ==
    IF ~IsValid(pi.RouterIPAddr)
    THEN Nil
    ELSE IF ~Contains(pi.IPNet, AsSlice(pi.RouterIPAddr))
    THEN Errorf("router ip %s is not within subnet", <<pi.RouterIPAddr>>)
    ELSE IF As4(pi.RouterIPAddr) = As4(pi.NetworkIPAddr)
    THEN Errorf("router ip %s is the same as network ip", <<pi.RouterIPAddr>>)
    ELSE IF As4(pi.RouterIPAddr) = As4(pi.BroadcastIPAddr)
    THEN Errorf("router ip %s is the same as broadcast ip", <<pi.BroadcastIPAddr>>)
    ELSE Nil

---------------------------------------------------------------------------
(* checkVmNetCfgs *)

\* util.VmnetcfgGetter.WhoUseIPPool: the records of the cache bound to the pool
WhoUseIPPool(cache, ipPool) ==
    IF cache.fails
    THEN [err |-> Errorf("lookup failure", <<>>), vmNetCfgs |-> <<>>]
    ELSE [err |-> Nil, vmNetCfgs |-> cache.items]

\* strings.Join(elems, sep), a text being the sequence of its pieces
RECURSIVE Join(_, _)
Join(elems, sep) ==
    IF Len(elems) = 0 THEN <<>>
    ELSE IF Len(elems) = 1 THEN elems[1]
    ELSE elems[1] \o <<sep>> \o Join(Tail(elems), sep)

\* checkVmNetCfgs, were it to name the records without their namespace
checkVmNetCfgs_NameOnly(cache, ipPool) ==
    LET got == WhoUseIPPool(cache, ipPool)
        vmNetCfgNames ==
            [i \in 1 .. Len(got.vmNetCfgs) |-> <<got.vmNetCfgs[i].Name>>]
    IN  [err   |-> IF got.err # Nil
                   THEN got.err
                   ELSE IF Len(got.vmNetCfgs) > 0
                   THEN Errorf("it's still used by VirtualMachineNetworkConfig(s) %s, which must be removed at first",
                               <<Join(vmNetCfgNames, ", ")>>)
                   ELSE Nil,
         calls |-> <<"WhoUseIPPool">>]

checkVmNetCfgs(cache, ipPool) ==
    LET got == WhoUseIPPool(cache, ipPool)
        vmNetCfgNames ==
            [i \in 1 .. Len(got.vmNetCfgs) |->
                <<got.vmNetCfgs[i].Namespace, "/", got.vmNetCfgs[i].Name>>]
    IN  [err   |-> IF got.err # Nil
                   THEN got.err
                   ELSE IF Len(got.vmNetCfgs) > 0
                   THEN Errorf("it's still used by VirtualMachineNetworkConfig(s) %s, which must be removed at first",
                               <<Join(vmNetCfgNames, ", ")>>)
                   ELSE Nil,
         calls |-> <<"WhoUseIPPool">>]

---------------------------------------------------------------------------
(* Create, Update, Delete *)

\* fmt.Errorf(webhook.CreateErr, kind, namespace, name, err)
CreateErr(kind, ipPool, err) ==
    Errorf("webhook.CreateErr", <<kind, ipPool.Namespace, ipPool.Name, err>>)

\* fmt.Errorf(webhook.DeleteErr, kind, namespace, name, err)
DeleteErr(kind, ipPool, err) ==
    Errorf("webhook.DeleteErr", <<kind, ipPool.Namespace, ipPool.Name, err>>)

\* Create, were it to hand the allocated addresses to checkServerIP as Update does
doCreate_WithAllocated(cache, ipPool) ==
    LET loaded == LoadPool(ipPool)
        allocatedIPAddrList ==
            IF ipPool.Status.IPv4 # <<>>
            THEN LoadAllocated(ipPool.Status.IPv4[1].Allocated)
            ELSE {}
        nad == checkNAD(cache, ipPool.Spec.NetworkName)
        c1  == <<"LoadPool", "checkNAD">> \o nad.calls
        e2  == checkPoolRange(loaded.pi)
        c2  == c1 \o <<"checkPoolRange">>
        e3  == checkServerIP(loaded.pi, allocatedIPAddrList)
        c3  == c2 \o <<"checkServerIP">>
        e4  == checkRouter(loaded.pi)
        c4  == c3 \o <<"checkRouter">>
    IN  IF loaded.err # Nil
        THEN [err |-> CreateErr("IPPool", ipPool, loaded.err), calls |-> <<"LoadPool">>]
        ELSE IF nad.err # Nil
        THEN [err |-> CreateErr("IPPool", ipPool, nad.err), calls |-> c1]
        ELSE IF e2 # Nil
        THEN [err |-> CreateErr("IPPool", ipPool, e2), calls |-> c2]
        ELSE IF e3 # Nil
        THEN [err |-> CreateErr("IPPool", ipPool, e3), calls |-> c3]
        ELSE IF e4 # Nil
        THEN [err |-> CreateErr("IPPool", ipPool, e4), calls |-> c4]
        ELSE [err |-> Nil, calls |-> c4]

\* Validator.Create
doCreate(cache, ipPool) ==
    LET loaded == LoadPool(ipPool)
        nad == checkNAD(cache, ipPool.Spec.NetworkName)
        c1  == <<"LoadPool", "checkNAD">> \o nad.calls
        e2  == checkPoolRange(loaded.pi)
        c2  == c1 \o <<"checkPoolRange">>
        e3  == checkServerIP(loaded.pi, {})
        c3  == c2 \o <<"checkServerIP">>
        e4  == checkRouter(loaded.pi)
        c4  == c3 \o <<"checkRouter">>
    IN  IF loaded.err # Nil
        THEN [err |-> CreateErr("IPPool", ipPool, loaded.err), calls |-> <<"LoadPool">>]
        ELSE IF nad.err # Nil
        THEN [err |-> CreateErr("IPPool", ipPool, nad.err), calls |-> c1]
        ELSE IF e2 # Nil
        THEN [err |-> CreateErr("IPPool", ipPool, e2), calls |-> c2]
        ELSE IF e3 # Nil
        THEN [err |-> CreateErr("IPPool", ipPool, e3), calls |-> c3]
        ELSE IF e4 # Nil
        THEN [err |-> CreateErr("IPPool", ipPool, e4), calls |-> c4]
        ELSE [err |-> Nil, calls |-> c4]

\* Update, were it to test the deletion timestamp after loading the pool
doUpdate_LoadFirst(cache, ipPool) ==
    LET loaded == LoadPool(ipPool)
        allocatedIPAddrList ==
            IF ipPool.Status.IPv4 # <<>>
            THEN LoadAllocated(ipPool.Status.IPv4[1].Allocated)
            ELSE {}
        nad == checkNAD(cache, ipPool.Spec.NetworkName)
        c1  == <<"LoadPool", "checkNAD">> \o nad.calls
        e2  == checkPoolRange(loaded.pi)
        c2  == c1 \o <<"checkPoolRange">>
        e3  == checkServerIP(loaded.pi, allocatedIPAddrList)
        c3  == c2 \o <<"checkServerIP">>
        e4  == checkRouter(loaded.pi)
        c4  == c3 \o <<"checkRouter">>
    IN  IF loaded.err # Nil
        THEN [err |-> CreateErr("IPPool", ipPool, loaded.err), calls |-> <<"LoadPool">>]
        ELSE IF ipPool.DeletionTimestamp # <<>>
        THEN [err |-> Nil, calls |-> <<"LoadPool">>]
        ELSE IF nad.err # Nil
        THEN [err |-> CreateErr("IPPool", ipPool, nad.err), calls |-> c1]
        ELSE IF e2 # Nil
        THEN [err |-> CreateErr("IPPool", ipPool, e2), calls |-> c2]
        ELSE IF e3 # Nil
        THEN [err |-> CreateErr("IPPool", ipPool, e3), calls |-> c3]
        ELSE IF e4 # Nil
        THEN [err |-> CreateErr("IPPool", ipPool, e4), calls |-> c4]
        ELSE [err |-> Nil, calls |-> c4]

\* Update, without the lookup of the network
doUpdate_NoNAD(cache, ipPool) ==
    LET loaded == LoadPool(ipPool)
        allocatedIPAddrList ==
            IF ipPool.Status.IPv4 # <<>>
            THEN LoadAllocated(ipPool.Status.IPv4[1].Allocated)
            ELSE {}
        e2 == checkPoolRange(loaded.pi)
        c2 == <<"LoadPool", "checkPoolRange">>
        e3 == checkServerIP(loaded.pi, allocatedIPAddrList)
        c3 == c2 \o <<"checkServerIP">>
        e4 == checkRouter(loaded.pi)
        c4 == c3 \o <<"checkRouter">>
    IN  IF ipPool.DeletionTimestamp # <<>>
        THEN [err |-> Nil, calls |-> <<>>]
        ELSE IF loaded.err # Nil
        THEN [err |-> CreateErr("IPPool", ipPool, loaded.err), calls |-> <<"LoadPool">>]
        ELSE IF e2 # Nil THEN [err |-> CreateErr("IPPool", ipPool, e2), calls |-> c2]
        ELSE IF e3 # Nil THEN [err |-> CreateErr("IPPool", ipPool, e3), calls |-> c3]
        ELSE IF e4 # Nil THEN [err |-> CreateErr("IPPool", ipPool, e4), calls |-> c4]
        ELSE [err |-> Nil, calls |-> c4]

\* Validator.Update
doUpdate(cache, ipPool) ==
    LET loaded == LoadPool(ipPool)
        allocatedIPAddrList ==
            IF ipPool.Status.IPv4 # <<>>
            THEN LoadAllocated(ipPool.Status.IPv4[1].Allocated)
            ELSE {}
        nad == checkNAD(cache, ipPool.Spec.NetworkName)
        c1  == <<"LoadPool", "checkNAD">> \o nad.calls
        e2  == checkPoolRange(loaded.pi)
        c2  == c1 \o <<"checkPoolRange">>
        e3  == checkServerIP(loaded.pi, allocatedIPAddrList)
        c3  == c2 \o <<"checkServerIP">>
        e4  == checkRouter(loaded.pi)
        c4  == c3 \o <<"checkRouter">>
    IN  IF ipPool.DeletionTimestamp # <<>>
        THEN [err |-> Nil, calls |-> <<>>]
        ELSE IF loaded.err # Nil
        THEN [err |-> CreateErr("IPPool", ipPool, loaded.err), calls |-> <<"LoadPool">>]
        ELSE IF nad.err # Nil
        THEN [err |-> CreateErr("IPPool", ipPool, nad.err), calls |-> c1]
        ELSE IF e2 # Nil
        THEN [err |-> CreateErr("IPPool", ipPool, e2), calls |-> c2]
        ELSE IF e3 # Nil
        THEN [err |-> CreateErr("IPPool", ipPool, e3), calls |-> c3]
        ELSE IF e4 # Nil
        THEN [err |-> CreateErr("IPPool", ipPool, e4), calls |-> c4]
        ELSE [err |-> Nil, calls |-> c4]

\* Validator.Delete
doDelete(cache, ipPool) ==
    LET chk == checkVmNetCfgs(cache, ipPool)
    IN  IF chk.err # Nil
        THEN [err   |-> DeleteErr(ipPool.Kind, ipPool, chk.err),
              calls |-> <<"checkVmNetCfgs">> \o chk.calls]
        ELSE [err |-> Nil, calls |-> <<"checkVmNetCfgs">> \o chk.calls]

---------------------------------------------------------------------------
(* The requests *)

CIDRStrings ==
    {<<>>} \cup {c \in Addrs \X (0 .. AddrBits) : Masked(c[1], c[2]) = c[1]}

AddrStrings == {<<>>} \cup {<<a>> : a \in Addrs}

\* "net", "ns1/net" and " /net/x "
NetworkNames ==
    {<<"net">>, <<"ns1", "/", "net">>, <<" ", "/", "net", "/", "x", " ">>}

\* the allocated addresses are the first k addresses after 0, for k <= MaxAllocated
AllocatedMaps == {{<<a>> : a \in Addrs \cap (1 .. k)} : k \in 0 .. MaxAllocated}

StatusIPv4 == {<<>>} \cup {<<[Allocated |-> m]>> : m \in AllocatedMaps}

PoolSpecs ==
    [CIDR        : CIDRStrings,
     Start       : AddrStrings,
     End         : AddrStrings,
     ServerIP    : AddrStrings,
     Router      : AddrStrings,
     NetworkName : NetworkNames]

\* the objects of the Update requests
IPPools ==
    [Kind              : {"IPPool"},
     Namespace         : {"default"},
     Name              : {"pool"},
     DeletionTimestamp : {<<>>, <<1>>},
     Spec              : PoolSpecs,
     Status            : [IPv4 : StatusIPv4]]

\* the objects of the Create requests: no deletion timestamp, no status yet
NewIPPools ==
    [Kind              : {"IPPool"},
     Namespace         : {"default"},
     Name              : {"pool"},
     DeletionTimestamp : {<<>>},
     Spec              : PoolSpecs,
     Status            : [IPv4 : {<<>>}]]

\* the objects of the Delete requests
OldIPPools ==
    [Kind              : {"", "IPPool"},
     Namespace         : {"default"},
     Name              : {"pool"},
     DeletionTimestamp : {<<>>},
     Spec              : [CIDR        : {<<0, 0>>},
                          Start       : {<<1>>},
                          End         : {<<2>>},
                          ServerIP    : {<<>>},
                          Router      : {<<>>},
                          NetworkName : {<<"net">>}],
     Status            : [IPv4 : {<<>>}]]

NadCaches ==
    {[keys   |-> {<<<<"default">>, <<"net", "/", "x">>>>},
      errors |-> {<<<<"ns1">>, <<"net">>>>}]}

VmNetCfgs == [Namespace : {"default", "ns1"}, Name : {"vm1", "vm2"}]

RECURSIVE SeqsUpTo(_, _)
SeqsUpTo(S, n) ==
    IF n = 0 THEN {<<>>}
    ELSE SeqsUpTo(S, n - 1)
         \cup {Append(q, x) : q \in {r \in SeqsUpTo(S, n - 1) : Len(r) = n - 1}, x \in S}

VmnetcfgCaches ==
    {[fails |-> TRUE, items |-> <<>>]}
    \cup {[fails |-> FALSE, items |-> q] : q \in SeqsUpTo(VmNetCfgs, MaxDeps)}

NoObj == [Kind |-> "", Namespace |-> "", Name |-> ""]

Init ==
    /\ operation \in {"CREATE", "UPDATE", "DELETE"}
    /\ nadCache \in IF operation = "DELETE"
                    THEN {[keys |-> {}, errors |-> {}]}
                    ELSE NadCaches
    /\ vmnetcfgCache \in IF operation = "DELETE"
                         THEN VmnetcfgCaches
                         ELSE {[fails |-> FALSE, items |-> <<>>]}
    /\ op = "none"
    /\ obj = NoObj
    /\ verdict = Nil
    /\ calls = <<>>

\* the admission request arrives: its object is decoded and handed to the
\* handler registered for its operation
Receive ==
    /\ op = "none"
    /\ obj = NoObj
    /\ obj' \in CASE operation = "CREATE" -> NewIPPools
                [] operation = "UPDATE" -> IPPools
                [] operation = "DELETE" -> OldIPPools
    /\ UNCHANGED <<nadCache, vmnetcfgCache, operation, op, verdict, calls>>

Create ==
    /\ operation = "CREATE"
    /\ op = "none"
    /\ obj # NoObj
    /\ LET ret == doCreate(nadCache, obj)
       IN  /\ op' = "Create"
           /\ verdict' = ret.err
           /\ calls' = ret.calls
    /\ UNCHANGED <<nadCache, vmnetcfgCache, operation, obj>>

Update ==
    /\ operation = "UPDATE"
    /\ op = "none"
    /\ obj # NoObj
    /\ LET ret == doUpdate(nadCache, obj)
       IN  /\ op' = "Update"
           /\ verdict' = ret.err
           /\ calls' = ret.calls
    /\ UNCHANGED <<nadCache, vmnetcfgCache, operation, obj>>

Delete ==
    /\ operation = "DELETE"
    /\ op = "none"
    /\ obj # NoObj
    /\ LET ret == doDelete(vmnetcfgCache, obj)
       IN  /\ op' = "Delete"
           /\ verdict' = ret.err
           /\ calls' = ret.calls
    /\ UNCHANGED <<nadCache, vmnetcfgCache, operation, obj>>

Next == Receive \/ Create \/ Update \/ Delete

Spec == Init /\ [][Next]_vars

---------------------------------------------------------------------------
(* The request of the current state, read from the IPPool object itself *)

\* a Create, or an Update of a pool without a deletion timestamp
Admitting ==
    \/ op = "Create"
    \/ op = "Update" /\ obj.DeletionTimestamp = <<>>

Loaded == obj.Spec.CIDR # <<>>

\* the subnet of the pool is the interval SubnetLo .. SubnetHi
SubnetLo == obj.Spec.CIDR[1]

SubnetHi == obj.Spec.CIDR[1] + (2 ^ (AddrBits - obj.Spec.CIDR[2])) - 1

AddrFields == {"Start", "End", "ServerIP", "Router"}

Present(f) == obj.Spec[f] # <<>>

Val(f) == obj.Spec[f][1]

AddrOf(f) ==
    IF Present(f) THEN [z |-> "z4", ip |-> Val(f)] ELSE [z |-> "z0", ip |-> 0]

Outside(f) == Present(f) /\ ~(SubnetLo <= Val(f) /\ Val(f) <= SubnetHi)

IsNetwork(f) == Present(f) /\ Val(f) = SubnetLo

IsBroadcast(f) == Present(f) /\ Val(f) = SubnetHi

FieldOK(f) == ~Outside(f) /\ ~IsNetwork(f) /\ ~IsBroadcast(f)

ServerIsRouter ==
    Present("ServerIP") /\ Present("Router") /\ Val("ServerIP") = Val("Router")

\* the allocated addresses an Update hands to checkServerIP
AllocatedKeys ==
    IF op = "Update" /\ obj.Status.IPv4 # <<>>
    THEN obj.Status.IPv4[1].Allocated
    ELSE {}

ServerAllocated == Present("ServerIP") /\ obj.Spec.ServerIP \in AllocatedKeys

RouterAllocated == Present("Router") /\ obj.Spec.Router \in AllocatedKeys

\* the namespace and name the network identifier stands for: the text on
\* either side of its first "/", white space around each removed; the
\* namespace is "default" when that leaves none
Unpadded(n, lo, hi) ==
    LET text == {i \in lo .. hi : n[i] # " "}
    IN  IF text = {} THEN <<>>
        ELSE SubSeq(n, CHOOSE i \in text : \A j \in text : i <= j,
                       CHOOSE i \in text : \A j \in text : j <= i)

NadKey ==
    LET n       == obj.Spec.NetworkName
        slashes == {i \in 1 .. Len(n) : n[i] = "/"}
        cut     == IF slashes = {} THEN 0
                   ELSE CHOOSE i \in slashes : \A j \in slashes : i <= j
        ns      == Unpadded(n, 1, cut - 1)
    IN  <<IF ns = <<>> THEN <<"default">> ELSE ns, Unpadded(n, cut + 1, Len(n))>>

\* the lookup of the network fails for a reason other than "not found"
LookupFails == NadKey \in nadCache.errors

Resolves == ~LookupFails /\ NadKey \in nadCache.keys

Rejected == verdict # Nil

\* the error the handler wrapped
Reason == verdict.args[4]

ThePool == LoadPool(obj).pi

TheAllocated == {[z |-> "z4", ip |-> k[1]] : k \in AllocatedKeys}

AllCalls ==
    <<"LoadPool", "checkNAD", "nadCache.Get", "checkPoolRange", "checkServerIP",
      "checkRouter">>

---------------------------------------------------------------------------
(* C1 *)

\* C1 as stated: every present address outside the subnet makes its validator
\* return "<role> ip A is not within subnet" for the first address outside the
\* subnet, and no Create or non-deleting Update is accepted with such an address.
C1_AsStated ==
    (Admitting /\ Loaded) =>
        /\ (\E f \in AddrFields : Outside(f)) => Rejected
        /\ Resolves =>
              LET pi == ThePool
              IN  /\ Outside("Start") =>
                        checkPoolRange(pi)
                            = Errorf("start ip %s is not within subnet",
                                     <<AddrOf("Start")>>)
                  /\ (~Outside("Start") /\ Outside("End")) =>
                        checkPoolRange(pi)
                            = Errorf("end ip %s is not within subnet", <<AddrOf("End")>>)
                  /\ Outside("ServerIP") =>
                        checkServerIP(pi, TheAllocated)
                            = Errorf("server ip %s is not within subnet",
                                     <<AddrOf("ServerIP")>>)
                  /\ Outside("Router") =>
                        checkRouter(pi)
                            = Errorf("router ip %s is not within subnet",
                                     <<AddrOf("Router")>>)

\* C1, amended: as C1, but an end address outside the subnet is reported as such
\* only when the start address is absent or passes its own three rules; when the
\* start address is the network or the broadcast address, checkPoolRange still
\* rejects, with the reason of the start address.
C1_OutsideSubnetRejected ==
    (Admitting /\ Loaded) =>
        /\ (\E f \in AddrFields : Outside(f)) => Rejected
        /\ Resolves =>
              LET pi    == ThePool
                  range == checkPoolRange(pi)
              IN  /\ Outside("Start") =>
                        range = Errorf("start ip %s is not within subnet",
                                       <<AddrOf("Start")>>)
                  /\ (FieldOK("Start") /\ Outside("End")) =>
                        range = Errorf("end ip %s is not within subnet", <<AddrOf("End")>>)
                  /\ ((IsNetwork("Start") \/ IsBroadcast("Start")) /\ Outside("End")) =>
                        /\ range.args = <<AddrOf("Start")>>
                        /\ range.format \in {"start ip %s is the same as network ip",
                                             "start ip %s is the same as broadcast ip"}
                  /\ Outside("ServerIP") =>
                        checkServerIP(pi, TheAllocated)
                            = Errorf("server ip %s is not within subnet",
                                     <<AddrOf("ServerIP")>>)
                  /\ Outside("Router") =>
                        checkRouter(pi)
                            = Errorf("router ip %s is not within subnet",
                                     <<AddrOf("Router")>>)

\* a Create rejected for its end address, outside the subnet, the start address
\* being present and passing its rules
C1_Witness ==
    /\ op = "Create" /\ Loaded /\ Resolves
    /\ Present("Start") /\ FieldOK("Start") /\ Outside("End")
    /\ Rejected
    /\ Reason = Errorf("end ip %s is not within subnet", <<AddrOf("End")>>)

---------------------------------------------------------------------------
(* C2 *)

\* C2: an address equal to the network or the broadcast address of the subnet is
\* rejected by the validator of its role, for every prefix length (also when the
\* two addresses coincide), a server address equal to a broadcast address that
\* is not the network address with "cannot be the same as broadcast ip"; no
\* accepted Create or non-deleting Update has such an address.
C2_ReservedRejected ==
    (Admitting /\ Loaded) =>
        /\ ~Rejected => \A f \in AddrFields : ~IsNetwork(f) /\ ~IsBroadcast(f)
        /\ Resolves =>
              LET pi    == ThePool
                  range == checkPoolRange(pi)
              IN  /\ (IsNetwork("Start") \/ IsBroadcast("Start")) => range # Nil
                  /\ (IsNetwork("End") \/ IsBroadcast("End")) => range # Nil
                  /\ (IsNetwork("ServerIP") \/ IsBroadcast("ServerIP")) =>
                        /\ checkServerIP(pi, TheAllocated) # Nil
                        /\ checkServerIP(pi, {}) # Nil
                  /\ (IsBroadcast("ServerIP") /\ ~IsNetwork("ServerIP")) =>
                        checkServerIP(pi, TheAllocated)
                            = Errorf("server ip %s cannot be the same as broadcast ip",
                                     <<AddrOf("ServerIP")>>)
                  /\ (IsNetwork("Router") \/ IsBroadcast("Router")) =>
                        checkRouter(pi) # Nil

\* an Update rejected for a server address that is the broadcast address
C2_Witness ==
    /\ op = "Update" /\ obj.DeletionTimestamp = <<>> /\ Loaded /\ Resolves
    /\ IsBroadcast("ServerIP") /\ ~IsNetwork("ServerIP")
    /\ Rejected
    /\ Reason = Errorf("server ip %s cannot be the same as broadcast ip",
                       <<AddrOf("ServerIP")>>)

---------------------------------------------------------------------------
(* C3 *)

\* C3: a server address equal to the router address (in the subnet, neither the
\* network nor the broadcast address) is rejected by checkServerIP with "cannot
\* be the same as router ip", and checkRouter on its own accepts that router.
C3_OneDirection ==
    (Admitting /\ Loaded /\ Resolves /\ ServerIsRouter /\ FieldOK("ServerIP")) =>
        /\ checkServerIP(ThePool, TheAllocated)
               = Errorf("server ip %s cannot be the same as router ip",
                        <<AddrOf("ServerIP")>>)
        /\ checkRouter(ThePool) = Nil

\* a Create rejected because the server address is the router address
C3_Witness ==
    /\ op = "Create" /\ Loaded /\ Resolves
    /\ ServerIsRouter /\ FieldOK("ServerIP")
    /\ Rejected
    /\ Reason = Errorf("server ip %s cannot be the same as router ip",
                       <<AddrOf("ServerIP")>>)
    /\ calls = SubSeq(AllCalls, 1, 5)

---------------------------------------------------------------------------
(* C4 *)

\* C4: an Update without a deletion timestamp whose server address is in the
\* allocated set is rejected with "server ip X is already allocated", and
\* Create accepts the same pool, when the network resolves and no other rule
\* is violated.
C4_AllocatedServer ==
    ( /\ op = "Update" /\ obj.DeletionTimestamp = <<>>
      /\ Loaded /\ Resolves
      /\ ServerAllocated
      /\ \A f \in AddrFields : FieldOK(f)
      /\ ~ServerIsRouter ) =>
        /\ verdict = CreateErr("IPPool", obj,
                         Errorf("server ip %s is already allocated",
                                <<AddrOf("ServerIP")>>))
        /\ doCreate(nadCache, obj).err = Nil

\* an Update rejected for its allocated server address, the allocated set
\* holding another address too
C4_Witness ==
    /\ op = "Update" /\ obj.DeletionTimestamp = <<>>
    /\ ServerAllocated /\ Cardinality(AllocatedKeys) > 1
    /\ Rejected
    /\ Reason.format = "server ip %s is already allocated"

---------------------------------------------------------------------------
(* C5 *)

\* the text of the error of a rejected Delete
DeleteText == Reason.args[1]

\* C5: Delete is accepted exactly when the dependency lookup succeeds with no
\* record; with N > 0 records it is rejected and the error text is the N
\* records as namespace/name, in the order of the lookup, joined by ", ".
C5_DeleteDependents ==
    (op = "Delete") =>
        LET items == vmnetcfgCache.items
            N     == Len(items)
        IN  /\ (verdict = Nil) <=> (~vmnetcfgCache.fails /\ N = 0)
            /\ (~vmnetcfgCache.fails /\ N > 0) =>
                  /\ verdict.format = "webhook.DeleteErr"
                  /\ Reason.format
                        = "it's still used by VirtualMachineNetworkConfig(s) %s, which must be removed at first"
                  /\ Len(DeleteText) = 4 * N - 1
                  /\ \A i \in 1 .. N :
                        /\ DeleteText[4 * i - 3] = items[i].Namespace
                        /\ DeleteText[4 * i - 2] = "/"
                        /\ DeleteText[4 * i - 1] = items[i].Name
                  /\ \A i \in 1 .. N - 1 : DeleteText[4 * i] = ", "

\* a Delete rejected for three dependents, not all in one namespace
C5_Witness ==
    /\ op = "Delete" /\ Rejected
    /\ ~vmnetcfgCache.fails
    /\ Len(vmnetcfgCache.items) = 3
    /\ vmnetcfgCache.items[1] # vmnetcfgCache.items[2]
    /\ vmnetcfgCache.items[1].Namespace # vmnetcfgCache.items[3].Namespace
    /\ Len(DeleteText) = 11

---------------------------------------------------------------------------
(* C6 *)

\* C6: an Update of a pool with a deletion timestamp is accepted whatever the
\* pool holds, and calls neither the loader nor the network registry.
C6_DeletingUpdateAccepted ==
    (op = "Update" /\ obj.DeletionTimestamp # <<>>) =>
        /\ verdict = Nil
        /\ calls = <<>>

\* an accepted Update of a pool that is being deleted, whose network lookup
\* would fail and whose start address is outside the subnet
C6_Witness ==
    /\ op = "Update" /\ obj.DeletionTimestamp # <<>>
    /\ LookupFails
    /\ Loaded /\ Outside("Start")
    /\ verdict = Nil

\* an accepted Update of a pool that is being deleted and cannot be loaded
C6_WitnessUnloadable ==
    /\ op = "Update" /\ obj.DeletionTimestamp # <<>>
    /\ ~Loaded
    /\ verdict = Nil

---------------------------------------------------------------------------
(* C7 *)

\* the rules in the order C7 gives: whether rule i is violated
RuleViolated(i) ==
    CASE i = 1  -> ~Resolves
      [] i = 2  -> Outside("Start")
      [] i = 3  -> IsNetwork("Start")
      [] i = 4  -> IsBroadcast("Start")
      [] i = 5  -> Outside("End")
      [] i = 6  -> IsNetwork("End")
      [] i = 7  -> IsBroadcast("End")
      [] i = 8  -> Outside("ServerIP")
      [] i = 9  -> IsNetwork("ServerIP")
      [] i = 10 -> IsBroadcast("ServerIP")
      [] i = 11 -> ServerIsRouter
      [] i = 12 -> ServerAllocated
      [] i = 13 -> Outside("Router")
      [] i = 14 -> IsNetwork("Router")
      [] i = 15 -> IsBroadcast("Router")

\* the reason of rule i
RuleReason(i) ==
    CASE i = 1  -> IF LookupFails
                   THEN Errorf("lookup failure", <<>>)
                   ELSE Errorf("%s not found", NadKey)
      [] i = 2  -> Errorf("start ip %s is not within subnet", <<AddrOf("Start")>>)
      [] i = 3  -> Errorf("start ip %s is the same as network ip", <<AddrOf("Start")>>)
      [] i = 4  -> Errorf("start ip %s is the same as broadcast ip", <<AddrOf("Start")>>)
      [] i = 5  -> Errorf("end ip %s is not within subnet", <<AddrOf("End")>>)
      [] i = 6  -> Errorf("end ip %s is the same as network ip", <<AddrOf("End")>>)
      [] i = 7  -> Errorf("end ip %s is the same as broadcast ip", <<AddrOf("End")>>)
      [] i = 8  -> Errorf("server ip %s is not within subnet", <<AddrOf("ServerIP")>>)
      [] i = 9  -> Errorf("server ip %s cannot be the same as network ip",
                          <<AddrOf("ServerIP")>>)
      [] i = 10 -> Errorf("server ip %s cannot be the same as broadcast ip",
                          <<AddrOf("ServerIP")>>)
      [] i = 11 -> Errorf("server ip %s cannot be the same as router ip",
                          <<AddrOf("ServerIP")>>)
      [] i = 12 -> Errorf("server ip %s is already allocated", <<AddrOf("ServerIP")>>)
      [] i = 13 -> Errorf("router ip %s is not within subnet", <<AddrOf("Router")>>)
      [] i = 14 -> Errorf("router ip %s is the same as network ip", <<AddrOf("Router")>>)
      [] i = 15 -> Errorf("router ip %s is the same as broadcast ip", <<AddrOf("Router")>>)

\* the number of calls made when the check of rule i has run
RuleStage(i) == IF i = 1 THEN 3 ELSE IF i <= 7 THEN 4 ELSE IF i <= 12 THEN 5 ELSE 6

RuleIds == 1 .. 15

\* C7: a Create or non-deleting Update returns the reason of the earliest
\* violated rule of the fixed order and nothing else, and makes no call after
\* the check that rejected; with no rule violated it accepts after all checks.
C7_FirstViolationWins ==
    (Admitting /\ Loaded) =>
        LET first == IF RuleViolated(1)
                     THEN 1
                     ELSE LET violated == {i \in RuleIds : RuleViolated(i)}
                          IN  IF violated = {}
                              THEN 0
                              ELSE CHOOSE i \in violated : \A j \in violated : i <= j
        IN  IF first = 0
            THEN verdict = Nil /\ calls = AllCalls
            ELSE /\ verdict = Errorf("webhook.CreateErr",
                                     <<"IPPool", obj.Namespace, obj.Name,
                                       RuleReason(first)>>)
                 /\ calls = SubSeq(AllCalls, 1, RuleStage(first))

\* an Update whose server address is the router address and is allocated,
\* rejected with the same-as-router reason
C7_Witness ==
    /\ op = "Update" /\ obj.DeletionTimestamp = <<>> /\ Loaded /\ Resolves
    /\ ServerIsRouter /\ ServerAllocated
    /\ Rejected
    /\ Reason.format = "server ip %s cannot be the same as router ip"
    /\ calls = SubSeq(AllCalls, 1, 5)

---------------------------------------------------------------------------
(* C8 *)

\* C8: a failing network lookup (not found or another failure) makes Create and
\* non-deleting Update reject with that error after exactly one lookup and
\* before any address check; a failing dependency lookup makes Delete reject
\* with that error after exactly one lookup, while an empty result is accepted.
C8_LookupFailureSurfaced ==
    /\ (Admitting /\ Loaded /\ ~Resolves) =>
          /\ verdict = Errorf("webhook.CreateErr",
                              <<"IPPool", obj.Namespace, obj.Name,
                                IF LookupFails
                                THEN Errorf("lookup failure", <<>>)
                                ELSE Errorf("%s not found", NadKey)>>)
          /\ calls = <<"LoadPool", "checkNAD", "nadCache.Get">>
    /\ (Admitting /\ Loaded) =>
          Cardinality({i \in 1 .. Len(calls) : calls[i] = "nadCache.Get"}) = 1
    /\ (op = "Delete") =>
          Cardinality({i \in 1 .. Len(calls) : calls[i] = "WhoUseIPPool"}) = 1
    /\ (op = "Delete" /\ vmnetcfgCache.fails) =>
          /\ verdict = Errorf("webhook.DeleteErr",
                              <<obj.Kind, obj.Namespace, obj.Name,
                                Errorf("lookup failure", <<>>)>>)
          /\ calls = <<"checkVmNetCfgs", "WhoUseIPPool">>
    /\ (op = "Delete" /\ ~vmnetcfgCache.fails /\ vmnetcfgCache.items = <<>>) =>
          verdict = Nil

\* a Create of a pool whose start address is outside the subnet, rejected with
\* the failure of the network lookup
C8_Witness ==
    /\ op = "Create" /\ Loaded
    /\ LookupFails /\ Outside("Start")
    /\ Rejected
    /\ Reason = Errorf("lookup failure", <<>>)

---------------------------------------------------------------------------
(* C9 *)

RouterFormats ==
    {"router ip %s is not within subnet",
     "router ip %s is the same as network ip",
     "router ip %s is the same as broadcast ip"}

\* C9: for an Update without a deletion timestamp, (a) with no allocated
\* address the verdict is Create's verdict on the same pool; (b) what Update
\* accepts Create accepts, and where they differ Update's reason is "server ip
\* X is already allocated" and Create accepts or rejects the router address.
C9_UpdateRefinesCreate ==
    (op = "Update" /\ obj.DeletionTimestamp = <<>>) =>
        LET created == doCreate(nadCache, obj).err
        IN  /\ (AllocatedKeys = {}) => verdict = created
            /\ (verdict = Nil) => created = Nil
            /\ (verdict # created) =>
                  /\ Reason = Errorf("server ip %s is already allocated",
                                     <<AddrOf("ServerIP")>>)
                  /\ \/ created = Nil
                     \/ created.args[4].format \in RouterFormats

\* an Update rejected for its allocated server address where Create rejects the
\* router address
C9_Witness ==
    /\ op = "Update" /\ obj.DeletionTimestamp = <<>>
    /\ Rejected
    /\ Reason.format = "server ip %s is already allocated"
    /\ doCreate(nadCache, obj).err # Nil
    /\ doCreate(nadCache, obj).err.args[4].format = "router ip %s is not within subnet"

---------------------------------------------------------------------------
(* C10 *)

\* C10: Create accepts a loaded pool exactly when the network resolves, every
\* present address is in the subnet and is neither its network nor its
\* broadcast address, and the server address is not the router address; an
\* Update without a deletion timestamp of such a pool is accepted unless the
\* server address is allocated (an allocated router address is accepted).
C10_AcceptedExactlyWhen ==
    /\ (op = "Create" /\ Loaded) =>
          ((verdict = Nil) <=>
              (Resolves /\ (\A f \in AddrFields : FieldOK(f)) /\ ~ServerIsRouter))
    /\ (op = "Update" /\ obj.DeletionTimestamp = <<>> /\ Loaded) =>
          ((verdict = Nil) <=>
              (/\ Resolves
               /\ \A f \in AddrFields : FieldOK(f)
               /\ ~ServerIsRouter
               /\ ~ServerAllocated))

\* an accepted Create whose start address is greater than its end address,
\* whose router address is the start address and whose server address is the
\* end address
C10_Witness ==
    /\ op = "Create" /\ verdict = Nil
    /\ \A f \in AddrFields : Present(f)
    /\ Val("Start") > Val("End")
    /\ Val("Router") = Val("Start")
    /\ Val("ServerIP") = Val("End")

\* an accepted Update whose router address is allocated
C10_WitnessRouterAllocated ==
    /\ op = "Update" /\ obj.DeletionTimestamp = <<>> /\ verdict = Nil
    /\ Present("ServerIP") /\ RouterAllocated

=============================================================================
